---- MODULE Spec2Model ----
(***************************************************************************)
(* Package l: a process-wide logging facade.  The module models            *)
(*   - Setup / Unsetup and the twelve leveled logging functions together    *)
(*     with the lazy default-initialisation guard ensureInitialized        *)
(*     (src/unnamed/part_000, lines 1-250), as goroutines that interleave   *)
(*     at every lock operation and every access to the package globals;    *)
(*   - the second definition of the same package found in the same file    *)
(*     (lines 252-441), which has neither the guard nor the lock;          *)
(*   - the caller-path encoder as a pure function over character strings.  *)
(* Strings whose content the code inspects (level names, caller paths)     *)
(* are sequences of one-character strings.                                 *)
(***************************************************************************)
EXTENDS Integers, Sequences, FiniteSets, TLC

\* ------------------------------------------------------------------ bounds
NumThreads == 3
MaxCalls == 3
MaxPathLen == 4

\* ------------------------------------------------- constants of the program
RotateMaxSize == 10
RotateMaxBackups == 30
RotateMaxAge == 7
BufferSize == 4096

Threads == 1..NumThreads

VARIABLES
    pc,           \* pc[t]: position of goroutine t inside the call it is making
    fn,           \* fn[t]: the exported function goroutine t is executing ("" when idle)
    arg,          \* arg[t]: the Config passed to Setup by goroutine t
    built,        \* built[t]: the logger goroutine t installed in its Setup call
    fwd,          \* fwd[t]: the handle the logging call of t forwarded to
    seen,         \* seen[t]: ids of the Setup calls that had returned when t's call began
    logger,       \* package global logger
    sugar,        \* package global sugar
    initMuW,      \* initMu: goroutine that claimed or holds the exclusive lock, 0 when free
    initMuR,      \* initMu: goroutines holding the shared lock
    onceDone,     \* initOnce: the done flag
    onceM,        \* initOnce: goroutine holding the latch's mutex, 0 when free
    nextId,       \* identity of the next logger built by Setup
    defaultCount, \* number of executions of the default-construction body
    setupDone,    \* ids of the Setup calls that returned, in order of return
    setupCalled,  \* some Setup call has begun
    logReturned,  \* some logging call has returned
    calls,        \* number of calls begun so far
    exited,       \* the process was terminated by a Fatal-level call
    lastErr,      \* the error the last Setup or Unsetup returned ("none" before any)
    workload,     \* how the embedding application uses the package
    encIn,        \* caller encoder: the trimmed path handed in
    encOut,       \* caller encoder: the string appended to the output
    encDone       \* caller encoder: EncodeCaller has run

vars == <<pc, fn, arg, built, fwd, seen, logger, sugar, initMuW, initMuR, onceDone,
          onceM, nextId, defaultCount, setupDone, setupCalled, logReturned,
          calls, exited, lastErr, workload, encIn, encOut, encDone>>

encVars == <<encIn, encOut, encDone>>
envVars == <<workload>>

\* ----------------------------------------------------------------- strings
Upper == <<"A","B","C","D","E","F","G","H","I","J","K","L","M",
           "N","O","P","Q","R","S","T","U","V","W","X","Y","Z">>
Lower == <<"a","b","c","d","e","f","g","h","i","j","k","l","m",
           "n","o","p","q","r","s","t","u","v","w","x","y","z">>

ToLowerChar(c) ==
    IF \E i \in 1..Len(Upper) : Upper[i] = c
    THEN Lower[CHOOSE i \in 1..Len(Upper) : Upper[i] = c]
    ELSE c

\* A lowering that leaves every character as it is (a case-sensitive match).
ToLowerIdentity(s) == s

ToLower(s) == [i \in 1..Len(s) |-> ToLowerChar(s[i])]

\* ----------------------------------------------------------- configuration
\* A Config value; present = FALSE is the nil interface.
NilConfig == [present |-> FALSE, level |-> <<>>, path |-> "", console |-> FALSE,
              async |-> FALSE]

LevelStrings ==
    { <<>>,
      <<"d","e","b","u","g">>, <<"D","E","B","U","G">>,
      <<"i","n","f","o">>, <<"I","n","f","o">>,
      <<"w","a","r","n">>, <<"W","A","R","N">>,
      <<"w","a","r","n","i","n","g">>, <<"W","a","r","n","i","n","g">>,
      <<"e","r","r","o","r">>, <<"E","R","R","O","R">>,
      <<"f","a","t","a","l">>, <<"F","a","t","a","l">>,
      <<"p","a","n","i","c">>, <<"P","A","N","I","C">>,
      <<"t","r","a","c","e">>, <<"w","a","r","n","s">>,
      <<"d","p","a","n","i","c">>, <<" ","i","n","f","o">> }

Configs ==
    {NilConfig} \cup
    [present : {TRUE}, level : LevelStrings, path : {"", "app.log"},
     console : BOOLEAN, async : BOOLEAN]

\* The configurations used when calls race with each other.
RaceConfigs ==
    { NilConfig,
      [present |-> TRUE, level |-> <<"I","n","f","o">>, path |-> "app.log",
       console |-> TRUE, async |-> FALSE],
      [present |-> TRUE, level |-> <<"t","r","a","c","e">>, path |-> "",
       console |-> FALSE, async |-> TRUE] }

\* ---------------------------------------------------------------- handles
NoFile == [open |-> FALSE, path |-> "", maxSize |-> 0, maxBackups |-> 0,
           maxAge |-> 0, compress |-> FALSE]

NilHandle == [kind |-> "nil", id |-> 0, level |-> "", console |-> FALSE,
              file |-> NoFile, buffer |-> 0, callerSkip |-> 0, from |-> NilConfig]

\* Setup, lines 78-94: the threshold.
ResolveLevel(c) ==
    IF c.present /\ c.level # <<>>
    THEN LET s == ToLower(c.level) IN
         CASE s = <<"d","e","b","u","g">> -> "debug"
           [] s = <<"i","n","f","o">> -> "info"
           [] s = <<"w","a","r","n">> \/ s = <<"w","a","r","n","i","n","g">> -> "warn"
           [] s = <<"e","r","r","o","r">> -> "error"
           [] s = <<"f","a","t","a","l">> -> "fatal"
           [] s = <<"p","a","n","i","c">> -> "panic"
           [] OTHER -> "debug"
    ELSE "debug"

\* Setup, lines 99-105: the rotating file.
RotatingFile(c) ==
    [open |-> TRUE, path |-> c.path, maxSize |-> RotateMaxSize,
     maxBackups |-> RotateMaxBackups, maxAge |-> RotateMaxAge, compress |-> TRUE]

\* A writer that always includes os.Stdout.
WriterConsoleAlways(c) == TRUE

\* Setup, lines 96-120: whether os.Stdout is among the sinks.
WriterConsole(c) == IF c.present THEN c.console ELSE TRUE

\* Setup, lines 96-120: the file sink, if any.
WriterFile(c) == IF c.present THEN RotatingFile(c) ELSE NoFile

\* Setup, lines 122-127: the size of the write buffer, 0 when unbuffered.
WriterBuffer(c) == IF c.present /\ c.async THEN BufferSize ELSE 0

\* Setup, lines 130-139: the logger built from configuration c.
NewLogger(c, id) ==
    [kind |-> "setup", id |-> id, level |-> ResolveLevel(c),
     console |-> WriterConsole(c), file |-> WriterFile(c),
     buffer |-> WriterBuffer(c), callerSkip |-> 1, from |-> c]

\* ensureInitialized, lines 174-188: the default logger.
DefaultLogger ==
    [kind |-> "default", id |-> 0, level |-> "debug", console |-> TRUE,
     file |-> NoFile, buffer |-> 0, callerSkip |-> 1, from |-> NilConfig]

\* A Setup that rejects level strings it does not recognise.
SetupResultStrict(c) ==
    IF c.present /\ c.level # <<>>
       /\ ToLower(c.level) \notin { <<"d","e","b","u","g">>, <<"i","n","f","o">>,
                                    <<"w","a","r","n">>, <<"w","a","r","n","i","n","g">>,
                                    <<"e","r","r","o","r">>, <<"f","a","t","a","l">>,
                                    <<"p","a","n","i","c">> }
    THEN "err" ELSE "nil"

\* Setup, line 142: the error returned.
SetupResult(c) == "nil"

\* Unsetup, line 146: the error returned.
UnsetupResult == "nil"

\* ------------------------------------------------------- logging functions
LogFns == {"Debug", "Info", "Warn", "Error", "Fatal", "Panic",
           "Debugf", "Infof", "Warnf", "Errorf", "Fatalf", "Panicf"}

\* The functions used when calls race with each other: one that returns and
\* one that ends the process.
RaceFns == {"Info", "Fatalf"}

\* The sugared-logger method each function forwards to ends the process
\* (Fatal, Fatalf), panics (Panic, Panicf) or returns.
AfterLog(f) ==
    CASE f \in {"Fatal", "Fatalf"} -> "exit"
      [] f \in {"Panic", "Panicf"} -> "panic"
      [] OTHER -> "return"

\* ------------------------------------------------------------ application
\* Goroutines of the embedding application that call the package.
Callers == IF workload = "sequential" THEN {1} ELSE Threads

\* Configurations the embedding application supplies.
CfgPool ==
    CASE workload = "sequential" -> Configs
      [] workload = "returning" -> {NilConfig}
      [] OTHER -> RaceConfigs

\* Logging functions the embedding application calls.
FnPool ==
    CASE workload = "concurrent" -> RaceFns
      [] workload = "returning" -> {"Info"}
      [] OTHER -> LogFns

\* --------------------------------------------------------------- helpers
Reset(f, t, v) == [f EXCEPT ![t] = v]

\* A call may begin on an idle goroutine of the application.  Goroutines are
\* interchangeable, so a new call is placed on the lowest idle one.
CanCall(t) ==
    /\ ~exited
    /\ t \in Callers
    /\ pc[t] = "idle"
    /\ \A u \in Callers : u < t => pc[u] # "idle"
    /\ calls < MaxCalls

\* A fast path with the test inverted.
FastPathInverted(s) == s.kind = "nil"

\* An once function that never takes the already-initialised exit.
RecheckNever(s) == FALSE

\* ensureInitialized, line 156: `sugar != nil` on the fast path.
FastPathReady(s) == s.kind # "nil"

\* ensureInitialized, line 168: `sugar != nil` inside the once function.
RecheckReady(s) == s.kind # "nil"

\* A method call on a nil *zap.SugaredLogger dereferences nil.
IsNilHandle(s) == s.kind = "nil"

\* sync.Once.Do, line 163: the function runs only while the latch is not done.
OnceMustRun(done) == ~done

\* sync.RWMutex.RLock: the shared lock can be taken while no writer holds or
\* has claimed the lock.
CanRLock == initMuW = 0

\* sync.RWMutex.Lock, first half: a writer claims the lock while no other
\* writer has it; from then on new readers wait.
CanClaim == initMuW = 0

\* sync.RWMutex.Lock, second half: the writer goes on once the readers that
\* were inside have left.
CanLock(t) == initMuW = t /\ initMuR = {}

\* ------------------------------------------- leveled logging, lines 192-250
\* Debug .. Panicf, first statement: the call begins with ensureInitialized().
LogCall(t, f) ==
    /\ CanCall(t)
    /\ f \in FnPool
    /\ pc' = Reset(pc, t, "ei_rlock")
    /\ fn' = Reset(fn, t, f)
    /\ fwd' = Reset(fwd, t, NilHandle)
    /\ seen' = Reset(seen, t, {setupDone[i] : i \in 1..Len(setupDone)})
    /\ calls' = calls + 1
    /\ UNCHANGED <<arg, built, logger, sugar, initMuW, initMuR, onceDone, onceM, nextId,
                   defaultCount, setupDone, setupCalled, logReturned, exited, lastErr>>
    /\ UNCHANGED <<envVars, encVars>>

\* ensureInitialized, line 155: initMu.RLock().
EnsureRLock(t) ==
    /\ ~exited
    /\ pc[t] = "ei_rlock"
    /\ CanRLock
    /\ initMuR' = initMuR \cup {t}
    /\ pc' = Reset(pc, t, "ei_check")
    /\ UNCHANGED <<fn, arg, built, fwd, seen, logger, sugar, initMuW, onceDone, onceM,
                   nextId, defaultCount, setupDone, setupCalled, logReturned, calls, exited, lastErr>>
    /\ UNCHANGED <<envVars, encVars>>

\* ensureInitialized, line 156: the fast-path test of sugar under the shared lock.
EnsureFastCheck(t) ==
    /\ ~exited
    /\ pc[t] = "ei_check"
    /\ pc' = Reset(pc, t, IF FastPathReady(sugar) THEN "ei_runlock_ready"
                          ELSE "ei_runlock_slow")
    /\ UNCHANGED <<fn, arg, built, fwd, seen, logger, sugar, initMuW, initMuR, onceDone,
                   onceM, nextId, defaultCount, setupDone, setupCalled, logReturned, calls, exited, lastErr>>
    /\ UNCHANGED <<envVars, encVars>>

\* A guard that releases the shared lock on the ready path only.
EnsureRUnlockReadyOnly(t) ==
    /\ ~exited
    /\ pc[t] \in {"ei_runlock_ready", "ei_runlock_slow"}
    /\ initMuR' = IF pc[t] = "ei_runlock_ready" THEN initMuR \ {t} ELSE initMuR
    /\ pc' = Reset(pc, t, IF pc[t] = "ei_runlock_ready" THEN "forward" ELSE "once_do")
    /\ UNCHANGED <<fn, arg, built, fwd, seen, logger, sugar, initMuW, onceDone, onceM,
                   nextId, defaultCount, setupDone, setupCalled, logReturned, calls,
                   exited, lastErr>>
    /\ UNCHANGED <<envVars, encVars>>

\* ensureInitialized, lines 157-160: initMu.RUnlock(), then return or go on.
EnsureRUnlock(t) ==
    /\ ~exited
    /\ pc[t] \in {"ei_runlock_ready", "ei_runlock_slow"}
    /\ initMuR' = initMuR \ {t}
    /\ pc' = Reset(pc, t, IF pc[t] = "ei_runlock_ready" THEN "forward" ELSE "once_do")
    /\ UNCHANGED <<fn, arg, built, fwd, seen, logger, sugar, initMuW, onceDone, onceM,
                   nextId, defaultCount, setupDone, setupCalled, logReturned, calls, exited, lastErr>>
    /\ UNCHANGED <<envVars, encVars>>

\* ensureInitialized, line 163: initOnce.Do, the test of the done flag.
OnceDo(t) ==
    /\ ~exited
    /\ pc[t] = "once_do"
    /\ pc' = Reset(pc, t, IF OnceMustRun(onceDone) THEN "once_lock" ELSE "forward")
    /\ UNCHANGED <<fn, arg, built, fwd, seen, logger, sugar, initMuW, initMuR, onceDone,
                   onceM, nextId, defaultCount, setupDone, setupCalled, logReturned, calls, exited, lastErr>>
    /\ UNCHANGED <<envVars, encVars>>

\* ensureInitialized, line 163: initOnce.Do, the latch's mutex is taken and the
\* done flag tested again; callers wait here while another runs the function.
OnceLock(t) ==
    /\ ~exited
    /\ pc[t] = "once_lock"
    /\ onceM = 0
    /\ onceM' = t
    /\ pc' = Reset(pc, t, IF OnceMustRun(onceDone) THEN "init_lock" ELSE "once_unlock")
    /\ UNCHANGED <<fn, arg, built, fwd, seen, logger, sugar, initMuW, initMuR, onceDone,
                   nextId, defaultCount, setupDone, setupCalled, logReturned, calls, exited, lastErr>>
    /\ UNCHANGED <<envVars, encVars>>

\* ensureInitialized, line 165: initMu.Lock() inside the once function, the
\* lock is claimed.
InitLock(t) ==
    /\ ~exited
    /\ pc[t] = "init_lock"
    /\ CanClaim
    /\ initMuW' = t
    /\ pc' = Reset(pc, t, "init_locking")
    /\ UNCHANGED <<fn, arg, built, fwd, seen, logger, sugar, initMuR, onceDone, onceM,
                   nextId, defaultCount, setupDone, setupCalled, logReturned, calls, exited, lastErr>>
    /\ UNCHANGED <<envVars, encVars>>

\* ensureInitialized, line 165: initMu.Lock() returns once the readers left.
InitLocked(t) ==
    /\ ~exited
    /\ pc[t] = "init_locking"
    /\ CanLock(t)
    /\ pc' = Reset(pc, t, "init_check")
    /\ UNCHANGED <<fn, arg, built, fwd, seen, logger, sugar, initMuW, initMuR, onceDone,
                   onceM, nextId, defaultCount, setupDone, setupCalled, logReturned,
                   calls, exited, lastErr>>
    /\ UNCHANGED <<envVars, encVars>>

\* ensureInitialized, lines 168-171: the second test of sugar, under the
\* exclusive lock.
InitRecheck(t) ==
    /\ ~exited
    /\ pc[t] = "init_check"
    /\ pc' = Reset(pc, t, IF RecheckReady(sugar) THEN "init_unlock" ELSE "init_build")
    /\ UNCHANGED <<fn, arg, built, fwd, seen, logger, sugar, initMuW, initMuR, onceDone,
                   onceM, nextId, defaultCount, setupDone, setupCalled, logReturned, calls, exited, lastErr>>
    /\ UNCHANGED <<envVars, encVars>>

\* ensureInitialized, lines 173-188: the default-construction body.
InitBuild(t) ==
    /\ ~exited
    /\ pc[t] = "init_build"
    /\ logger' = DefaultLogger
    /\ sugar' = logger'
    /\ defaultCount' = defaultCount + 1
    /\ pc' = Reset(pc, t, "init_unlock")
    /\ UNCHANGED <<fn, arg, built, fwd, seen, initMuW, initMuR, onceDone, onceM, nextId,
                   setupDone, setupCalled, logReturned, calls, exited, lastErr>>
    /\ UNCHANGED <<envVars, encVars>>

\* ensureInitialized, line 166: the deferred initMu.Unlock().
InitUnlock(t) ==
    /\ ~exited
    /\ pc[t] = "init_unlock"
    /\ initMuW' = 0
    /\ pc' = Reset(pc, t, "once_store")
    /\ UNCHANGED <<fn, arg, built, fwd, seen, logger, sugar, initMuR, onceDone, onceM,
                   nextId, defaultCount, setupDone, setupCalled, logReturned, calls, exited, lastErr>>
    /\ UNCHANGED <<envVars, encVars>>

\* ensureInitialized, line 189: the once function returned, the latch is done.
OnceStore(t) ==
    /\ ~exited
    /\ pc[t] = "once_store"
    /\ onceDone' = TRUE
    /\ pc' = Reset(pc, t, "once_unlock")
    /\ UNCHANGED <<fn, arg, built, fwd, seen, logger, sugar, initMuW, initMuR, onceM,
                   nextId, defaultCount, setupDone, setupCalled, logReturned, calls, exited, lastErr>>
    /\ UNCHANGED <<envVars, encVars>>

\* ensureInitialized, line 189: the latch's mutex is released, Do returns.
OnceUnlock(t) ==
    /\ ~exited
    /\ pc[t] = "once_unlock"
    /\ onceM' = 0
    /\ pc' = Reset(pc, t, "forward")
    /\ UNCHANGED <<fn, arg, built, fwd, seen, logger, sugar, initMuW, initMuR, onceDone,
                   nextId, defaultCount, setupDone, setupCalled, logReturned, calls, exited, lastErr>>
    /\ UNCHANGED <<envVars, encVars>>

\* Debug .. Panicf, second statement: sugar.<Level>(args...).  The global is
\* read without any lock; a nil handle makes the method dereference nil.
Forward(t) ==
    /\ ~exited
    /\ pc[t] = "forward"
    /\ IF IsNilHandle(sugar)
       THEN /\ pc' = Reset(pc, t, "crashed")
            /\ UNCHANGED <<fwd, exited>>
       ELSE /\ fwd' = Reset(fwd, t, sugar)
            /\ pc' = Reset(pc, t, CASE AfterLog(fn[t]) = "panic" -> "panicked"
                                    [] AfterLog(fn[t]) = "exit" -> "exiting"
                                    [] OTHER -> "log_return")
            /\ exited' = (AfterLog(fn[t]) = "exit")
    /\ UNCHANGED <<fn, arg, built, seen, logger, sugar, initMuW, initMuR, onceDone, onceM,
                   nextId, defaultCount, setupDone, setupCalled, logReturned, calls, lastErr>>
    /\ UNCHANGED <<envVars, encVars>>

\* Debug .. Panicf: the function returns to its caller.
LogReturn(t) ==
    /\ ~exited
    /\ pc[t] = "log_return"
    /\ pc' = Reset(pc, t, "idle")
    /\ fn' = Reset(fn, t, "")
    /\ fwd' = Reset(fwd, t, NilHandle)
    /\ seen' = Reset(seen, t, {})
    /\ logReturned' = TRUE
    /\ UNCHANGED <<arg, built, logger, sugar, initMuW, initMuR, onceDone, onceM, nextId,
                   defaultCount, setupDone, setupCalled, calls, exited, lastErr>>
    /\ UNCHANGED <<envVars, encVars>>

\* ------------------------------------------------------ Setup, lines 68-143
\* Setup(config): the call begins; encoder, threshold, writer and core are
\* built from the configuration alone (lines 70-133).
SetupCall(t, c) ==
    /\ CanCall(t)
    /\ c \in CfgPool
    /\ pc' = Reset(pc, t, "setup_lock")
    /\ fn' = Reset(fn, t, "Setup")
    /\ arg' = Reset(arg, t, c)
    /\ built' = Reset(built, t, NilHandle)
    /\ setupCalled' = TRUE
    /\ calls' = calls + 1
    /\ UNCHANGED <<fwd, seen, logger, sugar, initMuW, initMuR, onceDone, onceM, nextId,
                   defaultCount, setupDone, logReturned, exited, lastErr>>
    /\ UNCHANGED <<envVars, encVars>>

\* Setup, line 137: initMu.Lock(), the lock is claimed.
SetupLock(t) ==
    /\ ~exited
    /\ pc[t] = "setup_lock"
    /\ CanClaim
    /\ initMuW' = t
    /\ pc' = Reset(pc, t, "setup_locking")
    /\ UNCHANGED <<fn, arg, built, fwd, seen, logger, sugar, initMuR, onceDone,
                   onceM, nextId, defaultCount, setupDone, setupCalled, logReturned, calls, exited, lastErr>>
    /\ UNCHANGED <<envVars, encVars>>

\* Setup, line 137: initMu.Lock() returns once the readers left.
SetupLocked(t) ==
    /\ ~exited
    /\ pc[t] = "setup_locking"
    /\ CanLock(t)
    /\ pc' = Reset(pc, t, "setup_install")
    /\ UNCHANGED <<fn, arg, built, fwd, seen, logger, sugar, initMuW, initMuR, onceDone,
                   onceM, nextId, defaultCount, setupDone, setupCalled, logReturned,
                   calls, exited, lastErr>>
    /\ UNCHANGED <<envVars, encVars>>

\* An install that sets sugar only while it is nil.
SetupInstallIfUnset(t) ==
    /\ ~exited
    /\ pc[t] = "setup_install"
    /\ logger' = NewLogger(arg[t], nextId)
    /\ sugar' = IF IsNilHandle(sugar) THEN logger' ELSE sugar
    /\ built' = Reset(built, t, logger')
    /\ nextId' = nextId + 1
    /\ pc' = Reset(pc, t, "setup_unlock")
    /\ UNCHANGED <<fn, arg, fwd, seen, initMuW, initMuR, onceDone, onceM,
                   defaultCount, setupDone, setupCalled, logReturned, calls, exited,
                   lastErr>>
    /\ UNCHANGED <<envVars, encVars>>

\* Setup, lines 138-139: logger = zap.New(...); sugar = logger.Sugar().
SetupInstall(t) ==
    /\ ~exited
    /\ pc[t] = "setup_install"
    /\ logger' = NewLogger(arg[t], nextId)
    /\ sugar' = logger'
    /\ built' = Reset(built, t, logger')
    /\ nextId' = nextId + 1
    /\ pc' = Reset(pc, t, "setup_unlock")
    /\ UNCHANGED <<fn, arg, fwd, seen, initMuW, initMuR, onceDone, onceM,
                   defaultCount, setupDone, setupCalled, logReturned, calls, exited, lastErr>>
    /\ UNCHANGED <<envVars, encVars>>

\* Setup, line 140: initMu.Unlock().
SetupUnlock(t) ==
    /\ ~exited
    /\ pc[t] = "setup_unlock"
    /\ initMuW' = 0
    /\ pc' = Reset(pc, t, "setup_return")
    /\ UNCHANGED <<fn, arg, built, fwd, seen, logger, sugar, initMuR, onceDone,
                   onceM, nextId, defaultCount, setupDone, setupCalled, logReturned, calls, exited, lastErr>>
    /\ UNCHANGED <<envVars, encVars>>

\* Setup, line 142: return nil.
SetupReturn(t) ==
    /\ ~exited
    /\ pc[t] = "setup_return"
    /\ lastErr' = SetupResult(arg[t])
    /\ setupDone' = Append(setupDone, built[t].id)
    /\ pc' = Reset(pc, t, "idle")
    /\ fn' = Reset(fn, t, "")
    /\ arg' = Reset(arg, t, NilConfig)
    /\ built' = Reset(built, t, NilHandle)
    /\ UNCHANGED <<fwd, seen, logger, sugar, initMuW, initMuR, onceDone,
                   onceM, nextId, defaultCount, setupCalled, logReturned, calls, exited>>
    /\ UNCHANGED <<envVars, encVars>>

\* ---------------------------------------------------- Unsetup, lines 145-147
\* Unsetup(): return nil.
Unsetup(t) ==
    /\ CanCall(t)
    /\ lastErr' = UnsetupResult
    /\ calls' = calls + 1
    /\ UNCHANGED <<pc, fn, arg, built, fwd, seen, logger, sugar, initMuW, initMuR,
                   onceDone, onceM, nextId, defaultCount, setupDone, setupCalled,
                   logReturned, exited>>
    /\ UNCHANGED <<envVars, encVars>>

\* ------------------------------------------------------------ specification
InitPackage ==
    /\ pc = [t \in Threads |-> "idle"]
    /\ fn = [t \in Threads |-> ""]
    /\ arg = [t \in Threads |-> NilConfig]
    /\ built = [t \in Threads |-> NilHandle]
    /\ fwd = [t \in Threads |-> NilHandle]
    /\ seen = [t \in Threads |-> {}]
    /\ logger = NilHandle
    /\ sugar = NilHandle
    /\ initMuW = 0
    /\ initMuR = {}
    /\ onceDone = FALSE
    /\ onceM = 0
    /\ nextId = 1
    /\ defaultCount = 0
    /\ setupDone = <<>>
    /\ setupCalled = FALSE
    /\ logReturned = FALSE
    /\ calls = 0
    /\ exited = FALSE
    /\ lastErr = "none"

InitNoEncoder ==
    /\ encIn = <<>>
    /\ encOut = <<>>
    /\ encDone = TRUE

\* Goroutines of the application race on the package with a few configurations.
Init ==
    /\ InitPackage
    /\ InitNoEncoder
    /\ workload = "concurrent"

\* One goroutine calls the package with every configuration.
InitApi ==
    /\ InitPackage
    /\ InitNoEncoder
    /\ workload = "sequential"

Next ==
    \E t \in Threads :
        \/ CanCall(t) /\ \E f \in FnPool : LogCall(t, f)
        \/ EnsureRLock(t)
        \/ EnsureFastCheck(t)
        \/ EnsureRUnlock(t)
        \/ OnceDo(t)
        \/ OnceLock(t)
        \/ InitLock(t)
        \/ InitLocked(t)
        \/ InitRecheck(t)
        \/ InitBuild(t)
        \/ InitUnlock(t)
        \/ OnceStore(t)
        \/ OnceUnlock(t)
        \/ Forward(t)
        \/ LogReturn(t)
        \/ CanCall(t) /\ \E c \in CfgPool : SetupCall(t, c)
        \/ SetupLock(t)
        \/ SetupLocked(t)
        \/ SetupInstall(t)
        \/ SetupUnlock(t)
        \/ SetupReturn(t)
        \/ Unsetup(t)

Spec == Init /\ [][Next]_vars

SpecApi == InitApi /\ [][Next]_vars

\* Steps of goroutine t inside a call it has begun.
Proceed(t) ==
    \/ EnsureRLock(t) \/ EnsureFastCheck(t) \/ EnsureRUnlock(t)
    \/ OnceDo(t) \/ OnceLock(t)
    \/ InitLock(t) \/ InitLocked(t) \/ InitRecheck(t) \/ InitBuild(t) \/ InitUnlock(t)
    \/ OnceStore(t) \/ OnceUnlock(t)
    \/ Forward(t) \/ LogReturn(t)
    \/ SetupLock(t) \/ SetupLocked(t) \/ SetupInstall(t) \/ SetupUnlock(t) \/ SetupReturn(t)

\* Goroutines race on the package with calls that return to their caller
\* (no Fatal-level and no Panic-level call).
InitReturning ==
    /\ InitPackage
    /\ InitNoEncoder
    /\ workload = "returning"

\* The scheduler runs every goroutine that can take a step; a goroutine
\* blocked on a lock runs once the lock stays free.
FairSpec ==
    /\ InitReturning
    /\ [][Next]_vars
    /\ \A t \in Threads : WF_vars(Proceed(t))

\* ------------------------------- second definition of the package, 252-441
\* Debug .. Panicf, lines 394-440: the call begins; there is no guard.
LegacyLogCall(t, f) ==
    /\ CanCall(t)
    /\ f \in FnPool
    /\ pc' = Reset(pc, t, "legacy_forward")
    /\ fn' = Reset(fn, t, f)
    /\ fwd' = Reset(fwd, t, NilHandle)
    /\ seen' = Reset(seen, t, {setupDone[i] : i \in 1..Len(setupDone)})
    /\ calls' = calls + 1
    /\ UNCHANGED <<arg, built, logger, sugar, initMuW, initMuR, onceDone, onceM, nextId,
                   defaultCount, setupDone, setupCalled, logReturned, exited, lastErr>>
    /\ UNCHANGED <<envVars, encVars>>

\* Debug .. Panicf, lines 394-440: sugar.<Level>(args...).
LegacyForward(t) ==
    /\ ~exited
    /\ pc[t] = "legacy_forward"
    /\ IF IsNilHandle(sugar)
       THEN /\ pc' = Reset(pc, t, "crashed")
            /\ UNCHANGED <<fwd, exited>>
       ELSE /\ fwd' = Reset(fwd, t, sugar)
            /\ pc' = Reset(pc, t, CASE AfterLog(fn[t]) = "panic" -> "panicked"
                                    [] AfterLog(fn[t]) = "exit" -> "exiting"
                                    [] OTHER -> "log_return")
            /\ exited' = (AfterLog(fn[t]) = "exit")
    /\ UNCHANGED <<fn, arg, built, seen, logger, sugar, initMuW, initMuR, onceDone,
                   onceM, nextId, defaultCount, setupDone, setupCalled, logReturned,
                   calls, lastErr>>
    /\ UNCHANGED <<envVars, encVars>>

\* Setup, lines 316-381: the call begins and builds the core.
LegacySetupCall(t, c) ==
    /\ CanCall(t)
    /\ c \in CfgPool
    /\ pc' = Reset(pc, t, "legacy_logger")
    /\ fn' = Reset(fn, t, "Setup")
    /\ arg' = Reset(arg, t, c)
    /\ built' = Reset(built, t, NilHandle)
    /\ setupCalled' = TRUE
    /\ calls' = calls + 1
    /\ UNCHANGED <<fwd, seen, logger, sugar, initMuW, initMuR, onceDone, onceM, nextId,
                   defaultCount, setupDone, logReturned, exited, lastErr>>
    /\ UNCHANGED <<envVars, encVars>>

\* Setup, line 384: logger = zap.New(...), without any lock.
LegacySetLogger(t) ==
    /\ ~exited
    /\ pc[t] = "legacy_logger"
    /\ logger' = NewLogger(arg[t], nextId)
    /\ built' = Reset(built, t, logger')
    /\ nextId' = nextId + 1
    /\ pc' = Reset(pc, t, "legacy_sugar")
    /\ UNCHANGED <<fn, arg, fwd, seen, sugar, initMuW, initMuR, onceDone, onceM,
                   defaultCount, setupDone, setupCalled, logReturned, calls, exited,
                   lastErr>>
    /\ UNCHANGED <<envVars, encVars>>

\* Setup, line 385: sugar = logger.Sugar(), reading the global logger.
LegacySetSugar(t) ==
    /\ ~exited
    /\ pc[t] = "legacy_sugar"
    /\ sugar' = logger
    /\ pc' = Reset(pc, t, "legacy_return")
    /\ UNCHANGED <<fn, arg, built, fwd, seen, logger, initMuW, initMuR, onceDone, onceM,
                   nextId, defaultCount, setupDone, setupCalled, logReturned, calls,
                   exited, lastErr>>
    /\ UNCHANGED <<envVars, encVars>>

\* Setup, line 387: return nil.
LegacySetupReturn(t) ==
    /\ ~exited
    /\ pc[t] = "legacy_return"
    /\ lastErr' = SetupResult(arg[t])
    /\ setupDone' = Append(setupDone, built[t].id)
    /\ pc' = Reset(pc, t, "idle")
    /\ fn' = Reset(fn, t, "")
    /\ arg' = Reset(arg, t, NilConfig)
    /\ built' = Reset(built, t, NilHandle)
    /\ UNCHANGED <<fwd, seen, logger, sugar, initMuW, initMuR, onceDone, onceM, nextId,
                   defaultCount, setupCalled, logReturned, calls, exited>>
    /\ UNCHANGED <<envVars, encVars>>

\* Unsetup, lines 390-392: return nil.
LegacyUnsetup(t) ==
    /\ CanCall(t)
    /\ lastErr' = UnsetupResult
    /\ calls' = calls + 1
    /\ UNCHANGED <<pc, fn, arg, built, fwd, seen, logger, sugar, initMuW, initMuR,
                   onceDone, onceM, nextId, defaultCount, setupDone, setupCalled,
                   logReturned, exited>>
    /\ UNCHANGED <<envVars, encVars>>

InitLegacy ==
    /\ InitPackage
    /\ InitNoEncoder
    /\ workload = "legacy"

NextLegacy ==
    \E t \in Threads :
        \/ CanCall(t) /\ \E f \in FnPool : LegacyLogCall(t, f)
        \/ LegacyForward(t)
        \/ LogReturn(t)
        \/ CanCall(t) /\ \E c \in CfgPool : LegacySetupCall(t, c)
        \/ LegacySetLogger(t)
        \/ LegacySetSugar(t)
        \/ LegacySetupReturn(t)
        \/ LegacyUnsetup(t)

SpecLegacy == InitLegacy /\ [][NextLegacy]_vars

\* ------------------------------------------ caller encoder, lines 59-66
PathChars == {"a", "/", "."}

RECURSIVE SeqsUpTo(_)
SeqsUpTo(n) ==
    IF n = 0 THEN {<<>>}
    ELSE LET shorter == SeqsUpTo(n - 1) IN
         shorter \cup {Append(s, c) : s \in {x \in shorter : Len(x) = n - 1},
                                      c \in PathChars}

PathA == <<"p","k","g","n","a","m","e","/","s","u","b","/","f","i","l","e",
           ".","g","o",":","4","2">>
PathB == <<"f","i","l","e",".","g","o",":","4","2">>

Paths == SeqsUpTo(MaxPathLen) \cup {PathA, PathB}

\* strings.Index(s, sep) for a one-character sep: the 0-based position of the
\* first occurrence scanning from the left, -1 when there is none.
RECURSIVE IndexFrom(_, _, _)
IndexFrom(s, sep, i) ==
    IF i > Len(s) THEN -1
    ELSE IF s[i] = sep THEN i - 1
    ELSE IndexFrom(s, sep, i + 1)

Index(s, sep) == IndexFrom(s, sep, 1)

\* A slice that starts one character early.
SliceFromEarly(s, from) == SubSeq(s, from, Len(s))

\* s[from:] for a 0-based from.
SliceFrom(s, from) == SubSeq(s, from + 1, Len(s))

\* EncodeCaller, lines 61-65, on the trimmed path p.
CallerPath(p) ==
    LET idx == Index(p, "/") IN
    IF idx # -1 THEN SliceFrom(p, idx + 1) ELSE p

\* customCallerEncoder.EncodeCaller appends the path to the encoder.
EncodeCaller ==
    /\ ~encDone
    /\ encOut' = CallerPath(encIn)
    /\ encDone' = TRUE
    /\ UNCHANGED encIn
    /\ UNCHANGED <<pc, fn, arg, built, fwd, seen, logger, sugar, initMuW, initMuR,
                   onceDone, onceM, nextId, defaultCount, setupDone, setupCalled,
                   logReturned, calls, exited, lastErr>>
    /\ UNCHANGED envVars

InitEnc ==
    /\ InitPackage
    /\ workload = "encoder"
    /\ encIn \in Paths
    /\ encOut = <<>>
    /\ encDone = FALSE

NextEnc == EncodeCaller

SpecEnc == InitEnc /\ [][NextEnc]_vars

\* -------------------------------------------------------------- properties
\* Positions of a logging call after ensureInitialized has returned.
PastGuard == {"forward", "log_return", "panicked", "exiting"}

\* Positions of a logging call after it has forwarded to a handle.
Forwarded == {"log_return", "panicked", "exiting"}

\* Goroutine t holds no lock of the package.
HoldsNoLock(t) == initMuW # t /\ t \notin initMuR /\ onceM # t

\* C1: with no Setup call, the default-construction body of ensureInitialized
\* runs exactly once however the first logging calls interleave: its counter
\* never exceeds 1, and it is 1 as soon as a logging call is past the guard
\* and ever after a logging call has returned.
C1_DefaultInitExactlyOnce ==
    /\ defaultCount <= 1
    /\ (~setupCalled /\ (logReturned \/ \E t \in Threads : pc[t] \in PastGuard))
          => defaultCount = 1

\* C1 witness: two first calls ran concurrently, both are past the guard, no
\* Setup was called and the body ran once.
C1_Witness ==
    \E t, u \in Threads :
        /\ t # u
        /\ pc[t] = "log_return" /\ pc[u] = "log_return"
        /\ ~setupCalled /\ ~logReturned
        /\ defaultCount = 1

\* C2: explicit Setup wins over the lazy default: no step replaces a handle
\* installed by Setup with anything but a handle built by Setup, and the
\* default-construction body never runs once a Setup has installed its handle.
C2_SetupAlwaysWins ==
    [][ /\ (sugar.kind = "setup" => sugar'.kind = "setup")
        /\ (nextId > 1 => defaultCount' = defaultCount) ]_vars

\* C2 witness: a logging call that found the handle nil on the fast path is
\* inside the once function after a Setup installed its handle, and has skipped
\* the default construction.
C2_Witness ==
    \E t \in Threads :
        /\ pc[t] = "init_unlock"
        /\ sugar.kind = "setup"
        /\ defaultCount = 0

\* C3: no logging function ever forwards to a nil handle: the handle is
\* non-nil whenever a logging call is about to forward, and no call
\* dereferences nil.
C3_NeverForwardsToNil ==
    \A t \in Threads :
        /\ pc[t] \in {"forward", "legacy_forward"} => ~IsNilHandle(sugar)
        /\ pc[t] # "crashed"

\* C4: reads of the handle by logging calls exclude its replacement: no
\* logging call is at its read of the handle for forwarding while a Setup or
\* the default init is at its write of the handle.
C4_ReadsExcludeReplacement ==
    \A r, w \in Threads :
        ~(pc[r] = "forward" /\ pc[w] \in {"setup_install", "init_build"})

\* The Setup with handle id h returns after the Setup with handle id s.
ReturnsAfter(h, s) ==
    LET Pos(x) == CHOOSE i \in 1..Len(setupDone) : setupDone[i] = x
        done == {setupDone[i] : i \in 1..Len(setupDone)}
    IN h \notin done \/ (s \in done /\ Pos(h) > Pos(s))

\* C5 as stated: a logging call that begins after a Setup call has returned
\* forwards to the handle of that Setup or of a Setup that returned later.
C5_AsStated ==
    \A t \in Threads :
        (pc[t] \in Forwarded /\ seen[t] # {}) =>
            /\ fwd[t].kind = "setup"
            /\ \A s \in seen[t] : fwd[t].id = s \/ ReturnsAfter(fwd[t].id, s)

\* C5 amended: a logging call that begins after a Setup call has returned
\* forwards to the handle of that Setup or to a handle a Setup installed later
\* (handles are numbered in the order of installation), never to an earlier
\* one nor to the lazy default.
C5_LastInstalledWins ==
    \A t \in Threads :
        (pc[t] \in Forwarded /\ seen[t] # {}) =>
            /\ fwd[t].kind = "setup"
            /\ \A s \in seen[t] : fwd[t].id >= s

\* C5 witness: a logging call that began after two Setup calls had returned
\* has forwarded to the handle installed last.
C5_Witness ==
    \E t \in Threads :
        /\ pc[t] = "log_return"
        /\ Cardinality(seen[t]) = 2
        /\ fwd[t].id = 2

\* The threshold each spelling of a level name stands for.
C6_Table ==
    { << <<"d","e","b","u","g">>, "debug" >>, << <<"D","E","B","U","G">>, "debug" >>,
      << <<"i","n","f","o">>, "info" >>, << <<"I","n","f","o">>, "info" >>,
      << <<"w","a","r","n">>, "warn" >>, << <<"W","A","R","N">>, "warn" >>,
      << <<"w","a","r","n","i","n","g">>, "warn" >>,
      << <<"W","a","r","n","i","n","g">>, "warn" >>,
      << <<"e","r","r","o","r">>, "error" >>, << <<"E","R","R","O","R">>, "error" >>,
      << <<"f","a","t","a","l">>, "fatal" >>, << <<"F","a","t","a","l">>, "fatal" >>,
      << <<"p","a","n","i","c">>, "panic" >>, << <<"P","A","N","I","C">>, "panic" >> }

\* C6: the logger Setup installs has threshold debug for an absent
\* configuration or an empty level string, the threshold named by the level
\* string whatever its case, warning standing for warn, and debug for any
\* other string; Setup returns no error.
C6_ThresholdMapping ==
    /\ lastErr # "err"
    /\ sugar.kind = "setup" =>
         LET c == sugar.from IN
         /\ (~c.present \/ c.level = <<>>) => sugar.level = "debug"
         /\ \A e \in C6_Table : (c.present /\ c.level = e[1]) => sugar.level = e[2]
         /\ (c.present /\ c.level \notin {e[1] : e \in C6_Table}) => sugar.level = "debug"

\* C6 witness: Setup installed a logger for the level string "Warning".
C6_Witness ==
    /\ sugar.kind = "setup"
    /\ sugar.from.level = <<"W","a","r","n","i","n","g">>
    /\ sugar.level = "warn"
    /\ lastErr = "nil"

\* C7: the sinks of the logger Setup installs depend on the configuration's
\* presence, Console() and Path() alone: console only when it is absent,
\* console and the rotating file at Path() when Console() is true, the
\* rotating file only when Console() is false.
C7_SinksFromConfig ==
    sugar.kind = "setup" =>
        LET c == sugar.from IN
        /\ ~c.present => (sugar.console /\ ~sugar.file.open)
        /\ (c.present /\ c.console) =>
              (sugar.console /\ sugar.file.open /\ sugar.file.path = c.path)
        /\ (c.present /\ ~c.console) =>
              (~sugar.console /\ sugar.file.open /\ sugar.file.path = c.path)

\* C7 witness: Setup installed a file-only, buffered logger with a recognised
\* level string.
C7_Witness ==
    /\ sugar.kind = "setup"
    /\ sugar.from.present /\ ~sugar.from.console /\ sugar.from.async
    /\ sugar.from.level = <<"E","R","R","O","R">>
    /\ ~sugar.console /\ sugar.file.open /\ sugar.file.path = "app.log"

\* C8: Setup and Unsetup report success on every call: no call returns an
\* error; the install step of Setup puts a new handle in place and Setup then
\* returns nil; Unsetup returns nil and leaves the handle, the lock and the
\* one-time latch as they are.
C8_AlwaysSuccess ==
    [][ /\ lastErr' # "err"
        /\ \A t \in Threads :
             /\ (pc[t] = "setup_install" /\ pc'[t] # "setup_install") =>
                   (sugar'.kind = "setup" /\ sugar'.id = nextId /\ sugar' # sugar
                    /\ sugar'.from = arg[t])
             /\ (pc[t] = "setup_return" /\ pc'[t] = "idle") =>
                   (lastErr' = "nil" /\ built[t].kind = "setup")
        /\ (calls' = calls + 1 /\ pc' = pc) =>
              (lastErr' = "nil" /\ UNCHANGED <<logger, sugar, onceDone, onceM,
                                               initMuW, initMuR, defaultCount>>)
      ]_vars

\* C8 witness: after a default initialisation, Setup with an unrecognised
\* level string and an empty path has returned nil and its handle is in place.
C8_Witness ==
    /\ defaultCount = 1
    /\ setupDone # <<>>
    /\ pc[1] = "idle"
    /\ lastErr = "nil"
    /\ sugar.kind = "setup"
    /\ sugar.from.level = <<"t","r","a","c","e">>
    /\ sugar.from.path = ""

\* C9: the caller encoder outputs what follows the first "/" of the path,
\* later separators kept, and the path itself when it holds no "/".
C9_CallerEncoder ==
    encDone =>
        /\ IF \E k \in 1..Len(encIn) : encIn[k] = "/"
           THEN \E k \in 1..Len(encIn) :
                   /\ encIn[k] = "/"
                   /\ \A j \in 1..(k - 1) : encIn[j] # "/"
                   /\ encOut = [i \in 1..(Len(encIn) - k) |-> encIn[k + i]]
           ELSE encOut = encIn
        /\ encIn = PathA =>
              encOut = <<"s","u","b","/","f","i","l","e",".","g","o",":","4","2">>
        /\ encIn = PathB => encOut = PathB

\* C9 witness: a path with two separators has been encoded.
C9_Witness ==
    /\ encDone
    /\ encIn = <<"a","/","a","/">>
    /\ encOut = <<"a","/">>

\* C10: with logging calls that are neither Fatal-level nor Panic-level and
\* Setup calls, under fair scheduling every call that has begun returns; and
\* a goroutine outside ensureInitialized and Setup holds none of the locks.
C10_NoDeadlock ==
    /\ \A t \in Threads : (pc[t] # "idle") ~> (pc[t] = "idle")
    /\ [](\A t \in Threads :
            pc[t] \in {"idle", "forward", "log_return", "panicked", "exiting"}
               => HoldsNoLock(t))

\* C10 witness: one logging call waits on the one-time latch while another runs
\* the default-init body and a Setup waits to claim the exclusive lock.
C10_Witness ==
    \E t, u, v \in Threads :
        /\ pc[t] = "once_lock"
        /\ pc[u] = "init_build"
        /\ pc[v] = "setup_lock"

====
